---- MODULE Spec2Model ----
(***************************************************************************)
(* Model of cli_calculator.py: the restricted AST evaluator SafeEvaluator, *)
(* the entry point eval_line and the interactive loop repl.                *)
(*                                                                         *)
(* A syntax tree node is a record of one shape,                            *)
(*   [t |-> node class, id |-> name / operator / literal kind,             *)
(*    n |-> literal value or a split index, kw |-> keyword names,          *)
(*    kids |-> child nodes in _fields order].                              *)
(* A value is a record of one shape,                                       *)
(*   [k |-> "num" | "real" | "huge" | "fn" | "none", n, f, pair, var];     *)
(* "real" is one of the two irrational constants, "huge" an int literal    *)
(* beyond the float range, "fn" a callable of FUNCS, "none" Python's None  *)
(* and pair = TRUE marks the tuple (var, value) visit_Assign returns.      *)
(***************************************************************************)
EXTENDS Integers, Sequences, FiniteSets, TLC

\* Numbers of the model are the integers -MaxNum..MaxNum; an evaluation that
\* leaves this range (or yields a non-integer) is outside the modelled inputs.
MaxNum == 2

----------------------------------------------------------------------------
(* Values *)

Val(k, n, f) == [k |-> k, n |-> n, f |-> f, pair |-> FALSE, var |-> ""]
NumV(n) == Val("num", n, "")
RealV(c) == Val("real", 0, c)
HugeV == Val("huge", 0, "")
FnV(f) == Val("fn", 0, f)
NoneV == Val("none", 0, "")
PairV(name, v) == [v EXCEPT !.pair = TRUE, !.var = name]

IsNumber(v) == ~v.pair /\ v.k \in {"num", "real", "huge"}
IsSmall(v) == ~v.pair /\ v.k = "num"
\* Python's `v == 0`
IsZero(v) == ~v.pair /\ v.k = "num" /\ v.n = 0

\* FUNCS: the names of the registry; the value registered under name f is FnV(f)
FUNCS == {"sqrt", "sin", "cos", "tan", "log", "ln", "exp", "abs", "round"}
\* CONSTS
CONSTS == {"pi", "e"}
BIN_OPS == {"Add", "Sub", "Mult", "Div", "FloorDiv", "Mod", "Pow"}
UNARY_OPS == {"UAdd", "USub"}

----------------------------------------------------------------------------
(* Outcomes of a visit: a value or a raised exception, with the environment *)
(* as the visit left it.  st = "oom" marks an evaluation whose value the    *)
(* integer model cannot represent.                                         *)

Ok(v, env) == [st |-> "ok", err |-> "", val |-> v, env |-> env]
Raise(e, env) == [st |-> "err", err |-> e, val |-> NoneV, env |-> env]
Oom(env) == [st |-> "oom", err |-> "", val |-> NoneV, env |-> env]

\* The Python exception class of each raise site
ExcClass(e) ==
    CASE e \in {"Syntax", "SingleOnly", "MultiTarget", "BadTarget", "NotApproved",
                "OperatorNotAllowed", "UnaryNotAllowed", "Unsupported",
                "NonNumericLiteral", "MathDomain"} -> "ValueError"
      [] e = "UnknownName" -> "NameError"
      [] e \in {"DivisionByZero", "PlatformZeroDivision"} -> "ZeroDivisionError"
      [] e = "Overflow" -> "OverflowError"
      [] OTHER -> "TypeError"

----------------------------------------------------------------------------
(* Arithmetic *)

InRange(n) == n >= -MaxNum /\ n <= MaxNum
Abs(n) == IF n < 0 THEN -n ELSE n

\* Python's floor division and modulo on integers, b # 0
PyFloorDiv(a, b) ==
    LET q == Abs(a) \div Abs(b)
        exact == Abs(a) % Abs(b) = 0
    IN IF (a >= 0) = (b > 0) THEN q ELSE IF exact THEN -q ELSE -q - 1
PyMod(a, b) == a - b * PyFloorDiv(a, b)

RECURSIVE IntPow(_, _)
IntPow(a, b) == IF b = 0 THEN 1 ELSE a * IntPow(a, b - 1)

NumOrOom(n, env) == IF InRange(n) THEN Ok(NumV(n), env) ELSE Oom(env)

\* BIN_OPS[op_type](left, right)
ApplyBinOp(op, l, r, env) ==
    IF ~IsNumber(l) \/ ~IsNumber(r) THEN Raise("TypeError", env)
    ELSE IF ~IsSmall(l) \/ ~IsSmall(r) THEN Oom(env)
    ELSE CASE op = "Add" -> NumOrOom(l.n + r.n, env)
           [] op = "Sub" -> NumOrOom(l.n - r.n, env)
           [] op = "Mult" -> NumOrOom(l.n * r.n, env)
           [] op = "Div" ->
                IF r.n = 0 THEN Raise("PlatformZeroDivision", env)
                ELSE IF PyMod(l.n, r.n) = 0 THEN NumOrOom(PyFloorDiv(l.n, r.n), env)
                ELSE Oom(env)
           [] op = "FloorDiv" ->
                IF r.n = 0 THEN Raise("PlatformZeroDivision", env)
                ELSE NumOrOom(PyFloorDiv(l.n, r.n), env)
           [] op = "Mod" ->
                IF r.n = 0 THEN Raise("PlatformZeroDivision", env)
                ELSE NumOrOom(PyMod(l.n, r.n), env)
           [] op = "Pow" ->
                IF r.n >= 0 THEN NumOrOom(IntPow(l.n, r.n), env)
                ELSE IF l.n = 0 THEN Raise("PlatformZeroDivision", env)
                ELSE IF l.n = 1 THEN Ok(NumV(1), env)
                ELSE IF l.n = -1 THEN Ok(NumV(IF r.n % 2 = 0 THEN 1 ELSE -1), env)
                ELSE Oom(env)

\* UNARY_OPS[op_type](operand)
ApplyUnaryOp(op, x, env) ==
    IF ~IsNumber(x) THEN Raise("TypeError", env)
    ELSE IF ~IsSmall(x) THEN Oom(env)
    ELSE IF op = "USub" THEN Ok(NumV(-x.n), env) ELSE Ok(x, env)

----------------------------------------------------------------------------
(* The callables registered in FUNCS *)

SeqToSet(s) == {s[i] : i \in 1..Len(s)}
\* The value bound to keyword name among the keyword arguments
KwVal(name, kwn, kwv) == kwv[CHOOSE i \in 1..Len(kwn) : kwn[i] = name]

\* How math.log's argument conversion treats one argument
LogArg(v) ==
    IF ~IsNumber(v) THEN "type"
    ELSE IF IsSmall(v) /\ v.n <= 0 THEN "dom" ELSE "ok"

\* math.log(x) and math.log(x, b)
MathLog(x, hasBase, b, env) ==
    IF LogArg(x) = "type" THEN Raise("TypeError", env)
    ELSE IF LogArg(x) = "dom" THEN Raise("MathDomain", env)
    ELSE IF ~hasBase THEN
        IF x = NumV(1) THEN Ok(NumV(0), env)
        ELSE IF x = RealV("e") THEN Ok(NumV(1), env)
        ELSE Oom(env)
    ELSE IF LogArg(b) = "type" THEN Raise("TypeError", env)
    ELSE IF LogArg(b) = "dom" THEN Raise("MathDomain", env)
    ELSE IF b = NumV(1) THEN Raise("PlatformZeroDivision", env)
    ELSE IF x = NumV(1) THEN Ok(NumV(0), env)
    ELSE IF x = b /\ x.k # "huge" THEN Ok(NumV(1), env)
    ELSE IF IsSmall(x) /\ IsSmall(b) /\ x.n = b.n * b.n THEN NumOrOom(2, env)
    ELSE Oom(env)

\* math.sqrt, math.sin, math.cos, math.tan, math.exp
MathOne(f, args, kwn, env) ==
    IF Len(kwn) > 0 \/ Len(args) # 1 THEN Raise("TypeError", env)
    ELSE LET x == args[1] IN
         IF ~IsNumber(x) THEN Raise("TypeError", env)
         ELSE IF x.k = "huge" THEN Raise("Overflow", env)
         ELSE IF x.k = "real" THEN Oom(env)
         ELSE CASE f = "sqrt" ->
                    IF x.n < 0 THEN Raise("MathDomain", env)
                    ELSE IF \E r \in 0..x.n : r * r = x.n
                         THEN Ok(NumV(CHOOSE r \in 0..x.n : r * r = x.n), env)
                         ELSE Oom(env)
                [] f \in {"sin", "tan"} -> IF x.n = 0 THEN Ok(NumV(0), env) ELSE Oom(env)
                [] f \in {"cos", "exp"} -> IF x.n = 0 THEN Ok(NumV(1), env) ELSE Oom(env)

\* Binding of at most two parameters p1, p2 (p2 optional) from positional and
\* keyword arguments, as Python binds them: TRUE when the binding fails
BindError(p1, p2, args, kwn) ==
    \/ Len(args) > 2
    \/ ~(SeqToSet(kwn) \subseteq {p1, p2})
    \/ Len(args) >= 1 /\ p1 \in SeqToSet(kwn)
    \/ Len(args) = 2 /\ p2 \in SeqToSet(kwn)
    \/ Len(args) = 0 /\ p1 \notin SeqToSet(kwn)
Bound1(p1, args, kwn, kwv) == IF Len(args) >= 1 THEN args[1] ELSE KwVal(p1, kwn, kwv)
HasBound2(p2, args, kwn) == Len(args) = 2 \/ p2 \in SeqToSet(kwn)
Bound2(p2, args, kwn, kwv) == IF Len(args) = 2 THEN args[2] ELSE KwVal(p2, kwn, kwv)

\* func(*args, **kwargs) for func = FUNCS[f]
CallFn(f, args, kwn, kwv, env) ==
    CASE f \in {"sqrt", "sin", "cos", "tan", "exp"} -> MathOne(f, args, kwn, env)
      [] f = "ln" ->
            IF Len(kwn) > 0 \/ Len(args) \notin {1, 2} THEN Raise("TypeError", env)
            ELSE MathLog(args[1], Len(args) = 2, IF Len(args) = 2 THEN args[2] ELSE NoneV, env)
      [] f = "log" ->
            IF BindError("x", "base", args, kwn) THEN Raise("TypeError", env)
            ELSE MathLog(Bound1("x", args, kwn, kwv), TRUE,
                         IF HasBound2("base", args, kwn)
                         THEN Bound2("base", args, kwn, kwv) ELSE NumV(10), env)
      [] f = "abs" ->
            IF Len(kwn) > 0 \/ Len(args) # 1 THEN Raise("TypeError", env)
            ELSE IF ~IsNumber(args[1]) THEN Raise("TypeError", env)
            ELSE IF IsSmall(args[1]) THEN Ok(NumV(Abs(args[1].n)), env)
            ELSE Ok(args[1], env)
      [] f = "round" ->
            IF BindError("number", "ndigits", args, kwn) THEN Raise("TypeError", env)
            ELSE LET x == Bound1("number", args, kwn, kwv)
                     nd == IF HasBound2("ndigits", args, kwn)
                           THEN Bound2("ndigits", args, kwn, kwv) ELSE NoneV
                 IN IF ~IsNumber(x) THEN Raise("TypeError", env)
                    ELSE IF nd = NoneV THEN
                        IF x.k = "real" THEN NumOrOom(3, env) ELSE Ok(x, env)
                    ELSE IF ~IsNumber(nd) THEN Raise("TypeError", env)
                    ELSE Oom(env)

----------------------------------------------------------------------------
(* Syntax trees *)

Node(t, id, n, kw, kids) == [t |-> t, id |-> id, n |-> n, kw |-> kw, kids |-> kids]
Num(n) == Node("Constant", "int", n, <<>>, <<>>)
Huge == Node("Constant", "huge", 0, <<>>, <<>>)
Str == Node("Constant", "str", 0, <<>>, <<>>)
Name(id) == Node("Name", id, 0, <<>>, <<>>)
BinOp(op, l, r) == Node("BinOp", op, 0, <<>>, <<l, r>>)
UnaryOp(op, x) == Node("UnaryOp", op, 0, <<>>, <<x>>)
\* kids = <<func>> \o positional arguments \o keyword values; n = number of
\* positional arguments; kw = the keyword names
Call(func, args, kwn, kwv) == Node("Call", "", Len(args), kwn, <<func>> \o args \o kwv)
Compare(op, l, r) == Node("Compare", op, 0, <<>>, <<l, r>>)
Other(t, kids) == Node(t, "", 0, <<>>, kids)
\* kids = targets \o <<value>>
Assign(targets, value) == Node("Assign", "", 0, <<>>, targets \o <<value>>)
AugAssign(target, op, value) == Node("AugAssign", op, 0, <<>>, <<target, value>>)
Expr(value) == Node("Expr", "", 0, <<>>, <<value>>)
\* kids = <<test>> \o body \o orelse
If(test, body, orelse) == Node("If", "", 0, <<>>, <<test>> \o body \o orelse)
Module(body) == Node("Module", "", 0, <<>>, body)
Expression(body) == Node("Expression", "", 0, <<>>, <<body>>)

\* Rejected without a visitor for comparisons
Rejected_NoCompare == {"IfExp", "BoolOp", "Lambda", "Attribute", "Subscript",
                       "List", "Tuple", "Dict"}

\* The node classes whose visitor only raises
Rejected == {"IfExp", "Compare", "BoolOp", "Lambda", "Attribute", "Subscript",
             "List", "Tuple", "Dict"}

----------------------------------------------------------------------------
(* SafeEvaluator *)

Store(env, id, v) == [x \in DOMAIN env \cup {id} |-> IF x = id THEN v ELSE env[x]]

RECURSIVE visit(_, _), visitSeq(_, _)

visit_Module(node, env) ==
    IF Len(node.kids) # 1 THEN Raise("SingleOnly", env)
    ELSE visit(node.kids[1], env)

\* visit_Assign that returns the pair without storing the value
visit_Assign_NoStore(node, env) ==
    IF Len(node.kids) - 1 # 1 THEN Raise("MultiTarget", env)
    ELSE IF node.kids[1].t # "Name" THEN Raise("BadTarget", env)
    ELSE LET r == visit(node.kids[2], env) IN
         IF r.st # "ok" THEN r
         ELSE Ok(PairV(node.kids[1].id, r.val), r.env)

visit_Assign(node, env) ==
    IF Len(node.kids) - 1 # 1 THEN Raise("MultiTarget", env)
    ELSE IF node.kids[1].t # "Name" THEN Raise("BadTarget", env)
    ELSE LET r == visit(node.kids[2], env) IN
         IF r.st # "ok" THEN r
         ELSE Ok(PairV(node.kids[1].id, r.val), Store(r.env, node.kids[1].id, r.val))

\* visit_Name that looks in the constants before the environment
visit_Name_ConstsFirst(node, env) ==
    IF node.id \in CONSTS THEN Ok(RealV(node.id), env)
    ELSE IF node.id \in DOMAIN env THEN Ok(env[node.id], env)
    ELSE IF node.id \in FUNCS THEN Ok(FnV(node.id), env)
    ELSE Raise("UnknownName", env)

visit_Name(node, env) ==
    IF node.id \in DOMAIN env THEN Ok(env[node.id], env)
    ELSE IF node.id \in CONSTS THEN Ok(RealV(node.id), env)
    ELSE IF node.id \in FUNCS THEN Ok(FnV(node.id), env)
    ELSE Raise("UnknownName", env)

\* func in FUNCS.values()
Approved(v) == ~v.pair /\ v.k = "fn" /\ v.f \in FUNCS

visit_Call(node, env) ==
    LET func == visit(node.kids[1], env) IN
    IF func.st # "ok" THEN func
    ELSE IF ~Approved(func.val) THEN Raise("NotApproved", func.env)
    ELSE LET args == visitSeq(SubSeq(node.kids, 2, node.n + 1), func.env) IN
         IF args.st # "ok" THEN [st |-> args.st, err |-> args.err, val |-> NoneV, env |-> args.env]
         ELSE LET kwargs == visitSeq(SubSeq(node.kids, node.n + 2, Len(node.kids)), args.env) IN
              IF kwargs.st # "ok"
              THEN [st |-> kwargs.st, err |-> kwargs.err, val |-> NoneV, env |-> kwargs.env]
              ELSE CallFn(func.val.f, args.vals, node.kw, kwargs.vals, kwargs.env)

\* visit_BinOp without the guard on a zero right operand
visit_BinOp_NoGuard(node, env) ==
    LET left == visit(node.kids[1], env) IN
    IF left.st # "ok" THEN left
    ELSE LET right == visit(node.kids[2], left.env) IN
         IF right.st # "ok" THEN right
         ELSE IF node.id \notin BIN_OPS THEN Raise("OperatorNotAllowed", right.env)
         ELSE ApplyBinOp(node.id, left.val, right.val, right.env)

visit_BinOp(node, env) ==
    LET left == visit(node.kids[1], env) IN
    IF left.st # "ok" THEN left
    ELSE LET right == visit(node.kids[2], left.env) IN
         IF right.st # "ok" THEN right
         ELSE IF node.id \notin BIN_OPS THEN Raise("OperatorNotAllowed", right.env)
         ELSE IF node.id \in {"Div", "FloorDiv", "Mod"} /\ IsZero(right.val)
              THEN Raise("DivisionByZero", right.env)
         ELSE ApplyBinOp(node.id, left.val, right.val, right.env)

visit_UnaryOp(node, env) ==
    LET operand == visit(node.kids[1], env) IN
    IF operand.st # "ok" THEN operand
    ELSE IF node.id \notin UNARY_OPS THEN Raise("UnaryNotAllowed", operand.env)
    ELSE ApplyUnaryOp(node.id, operand.val, operand.env)

visit_Constant(node, env) ==
    IF node.id = "int" THEN Ok(NumV(node.n), env)
    ELSE IF node.id = "huge" THEN Ok(HugeV, env)
    ELSE Raise("NonNumericLiteral", env)

\* ast.NodeVisitor.generic_visit: visit every child, return None
generic_visit(node, env) ==
    LET r == visitSeq(node.kids, env) IN
    IF r.st # "ok" THEN [st |-> r.st, err |-> r.err, val |-> NoneV, env |-> r.env]
    ELSE Ok(NoneV, r.env)

\* ast.NodeVisitor.visit: dispatch on the node class
visit(node, env) ==
    CASE node.t \in {"Expression", "Expr"} -> visit(node.kids[1], env)
      [] node.t = "Module" -> visit_Module(node, env)
      [] node.t = "Assign" -> visit_Assign(node, env)
      [] node.t = "Name" -> visit_Name(node, env)
      [] node.t = "Call" -> visit_Call(node, env)
      [] node.t = "BinOp" -> visit_BinOp(node, env)
      [] node.t = "UnaryOp" -> visit_UnaryOp(node, env)
      [] node.t \in Rejected -> Raise("Unsupported", env)
      [] node.t = "Constant" -> visit_Constant(node, env)
      [] OTHER -> generic_visit(node, env)

\* The visits of a list of children, in order, up to the first that raises
visitSeq(nodes, env) ==
    IF nodes = <<>> THEN [st |-> "ok", err |-> "", vals |-> <<>>, env |-> env]
    ELSE LET h == visit(nodes[1], env) IN
         IF h.st # "ok" THEN [st |-> h.st, err |-> h.err, vals |-> <<>>, env |-> h.env]
         ELSE LET t == visitSeq(Tail(nodes), h.env) IN
              [t EXCEPT !.vals = <<h.val>> \o t.vals]

----------------------------------------------------------------------------
(* eval_line *)

\* A line of text is modelled by what the parser makes of it: wf = the text
\* parses in exec mode, body = the statements of that parse, eq = the text
\* contains "=" (and does not start with "==" or "!=")
eval_line(s, env) ==
    IF ~s.wf THEN Raise("Syntax", env)
    ELSE IF s.eq THEN visit(Module(s.body), env)
    ELSE IF Len(s.body) = 1 /\ s.body[1].t = "Expr"
         THEN visit(Expression(s.body[1].kids[1]), env)
    ELSE Raise("Syntax", env)

----------------------------------------------------------------------------
(* Input lines *)

\* `"=" in s` for the text of a statement: an assignment, an augmented
\* assignment, a keyword argument or a comparison written with "="
RECURSIVE HasEq(_)
HasEq(node) ==
    \/ node.t \in {"Assign", "AugAssign"}
    \/ node.t = "Call" /\ Len(node.kw) > 0
    \/ node.t = "Compare" /\ node.id \in {"Eq", "NotEq", "LtE", "GtE"}
    \/ \E i \in 1..Len(node.kids) : HasEq(node.kids[i])

Line(body) == [wf |-> TRUE, eq |-> \E i \in 1..Len(body) : HasEq(body[i]), body |-> body]
\* The same statements followed by a comment that contains "="
Commented(body) == [wf |-> TRUE, eq |-> TRUE, body |-> body]
\* A text that parses in neither mode
Malformed == [wf |-> FALSE, eq |-> FALSE, body |-> <<>>]

Neg1 == UnaryOp("USub", Num(1))
DivZero == BinOp("Div", Num(1), Num(0))
Lt == Compare("Lt", Num(1), Num(2))
LtE == Compare("LtE", Num(1), Num(2))

BinExprs ==
    {BinOp(op, a, b) :
        op \in {"Add", "Sub", "Mult", "Div", "FloorDiv", "Mod", "Pow", "MatMult"},
        a \in {Num(1), Name("x")},
        b \in {Num(0), Num(2), Name("x")}}
    \cup {BinOp(op, Name("sqrt"), Num(0)) : op \in {"Add", "Div", "Mod", "MatMult"}}
    \cup {BinOp("Div", Num(1), Name("sqrt")), BinOp("Pow", Num(0), Neg1), BinOp("Pow", Num(2), Neg1),
          BinOp("Mod", Neg1, Num(2)), BinOp("FloorDiv", Neg1, Num(2)),
          BinOp("Div", Num(2), BinOp("Sub", Name("x"), Name("x"))),
          BinOp("Add", BinOp("Mod", Num(2), Num(0)), Num(1)),
          BinOp("Div", Num(1), Other("Set", <<Num(1)>>)),
          BinOp("Div", Huge, Num(0)), BinOp("Div", Name("y"), Num(0)),
          BinOp("Mod", Num(1), Name("y")), BinOp("Add", Name("pi"), Num(1))}

UnaryExprs ==
    {UnaryOp(op, a) : op \in {"USub", "UAdd", "Invert"},
                      a \in {Num(1), Name("x"), Name("sqrt")}}

CallExprs ==
    {Call(f, <<a>>, <<>>, <<>>) :
        f \in {Name("sqrt"), Name("abs"), Name("x"), Name("pi"), Name("y"), Num(2),
               Name("round"), Name("log")},
        a \in {Num(1), Neg1, Name("x"), Huge, DivZero, Lt}}
    \cup {Call(Name("sqrt"), <<>>, <<>>, <<>>),
          Call(Name("exp"), <<Num(0)>>, <<>>, <<>>),
          Call(Name("exp"), <<Huge>>, <<>>, <<>>),
          Call(Name("ln"), <<Num(1)>>, <<>>, <<>>),
          Call(Name("ln"), <<Num(0)>>, <<>>, <<>>),
          Call(Name("sqrt"), <<Name("y")>>, <<>>, <<>>),
          Call(Name("sqrt"), <<Num(1), Num(2)>>, <<>>, <<>>),
          Call(Name("sqrt"), <<>>, <<"x">>, <<Num(1)>>),
          Call(Name("log"), <<Num(2)>>, <<"base">>, <<Num(2)>>),
          Call(Name("log"), <<Num(2)>>, <<"base">>, <<Num(1)>>),
          Call(Name("log"), <<Num(2)>>, <<"x">>, <<Num(1)>>),
          Call(Name("log"), <<>>, <<"base">>, <<Num(2)>>),
          Call(Name("log"), <<>>, <<"x", "base">>, <<Num(1), Num(2)>>),
          Call(Name("log"), <<Num(1)>>, <<"b">>, <<Num(2)>>),
          Call(Name("ln"), <<Num(2), Num(2)>>, <<>>, <<>>),
          Call(Name("ln"), <<Name("e")>>, <<>>, <<>>),
          Call(Name("round"), <<Name("pi")>>, <<>>, <<>>),
          Call(Name("round"), <<Num(1)>>, <<"ndigits">>, <<Name("x")>>),
          Call(Name("round"), <<>>, <<"number">>, <<Num(2)>>),
          Call(Name("sin"), <<Num(0)>>, <<>>, <<>>),
          Call(Name("cos"), <<Num(0)>>, <<>>, <<>>),
          Call(Name("tan"), <<Num(0)>>, <<>>, <<>>),
          Call(Name("sqrt"), <<DivZero, Name("y")>>, <<>>, <<>>),
          Call(Name("x"), <<DivZero>>, <<"k">>, <<Name("y")>>),
          Call(Call(Name("sqrt"), <<Num(1)>>, <<>>, <<>>), <<Num(2)>>, <<>>, <<>>)}

RejectedExprs ==
    {Other(t, <<>>) : t \in {"IfExp", "BoolOp", "Lambda", "Attribute", "Subscript",
                             "List", "Tuple", "Dict"}}
    \cup {Lt, LtE}
    \cup {BinOp("Add", a, r) : a \in {DivZero, Name("y"), Num(1)},
                               r \in {Lt, Other("List", <<>>)}}
    \cup {BinOp("Add", Lt, DivZero), UnaryOp("USub", Other("Attribute", <<Name("y")>>)),
          Other("Set", <<LtE>>), Other("Set", <<Name("y"), Other("Dict", <<>>)>>),
          Other("IfExp", <<Name("x"), Num(1), Num(0)>>)}

Exprs ==
    {Num(0), Num(1), Num(2), Huge, Str,
     Name("x"), Name("y"), Name("pi"), Name("e"), Name("sqrt"), Name("abs"), Name("ans"),
     Other("Set", <<Num(1)>>), Other("Set", <<Name("y")>>)}
    \cup BinExprs \cup UnaryExprs \cup CallExprs \cup RejectedExprs

Assigns ==
    {Assign(<<Name("x")>>, v) :
        v \in {Num(0), Num(2), Name("sqrt"), Name("y"),
               BinOp("Add", Name("x"), Num(1)), DivZero, Lt, Other("Set", <<Num(1)>>)}}
    \cup {Assign(<<Name("pi")>>, Num(2)), Assign(<<Name("sqrt")>>, Num(1)),
          Assign(<<Name("sqrt")>>, Name("abs")),
          Assign(<<Name("x"), Name("y")>>, Num(1)),
          Assign(<<Other("Subscript", <<Name("x"), Num(0)>>)>>, Num(1))}

\* Statements that have no visitor of their own
Compound ==
    {If(Num(1), <<Assign(<<Name("x")>>, Num(2))>>, <<>>),
     If(Num(1), <<Assign(<<Name("x")>>, Num(2)), Assign(<<Name("y")>>, DivZero)>>, <<>>),
     If(Num(1), <<Assign(<<Name("x")>>, Num(1)), Expr(Name("y"))>>, <<>>),
     If(Name("y"), <<Assign(<<Name("x")>>, Num(1))>>, <<>>),
     If(LtE, <<Other("Pass", <<>>)>>, <<>>),
     If(Num(0), <<Other("Pass", <<>>)>>, <<Assign(<<Name("x")>>, Lt)>>),
     AugAssign(Name("x"), "Add", Num(1)),
     AugAssign(Name("y"), "Add", Num(1))}

Lines ==
    {Line(<<Expr(e)>>) : e \in Exprs}
    \cup {Line(<<a>>) : a \in Assigns \cup Compound}
    \cup {Commented(<<Expr(Num(1))>>), Commented(<<>>), Malformed,
          Line(<<Other("Pass", <<>>)>>), Line(<<Expr(Num(1)), Expr(Num(2))>>),
          Line(<<Assign(<<Name("x")>>, Num(1)), Assign(<<Name("pi")>>, Num(2))>>)}

----------------------------------------------------------------------------
(* State *)

VARIABLES
    env,     \* the variable environment (dict)
    status,  \* the process: "running", "exited" or "crashed"
    inp,     \* the last input read
    out,     \* what eval_line returned or raised for the last line
    prev     \* env before the last input was handled

vars == <<env, status, inp, out, prev>>

Input(kind, cmd, s) == [kind |-> kind, cmd |-> cmd, s |-> s]
Outcome(r) == [st |-> r.st, err |-> r.err, val |-> r.val]
NoOutcome == [st |-> "none", err |-> "", val |-> NoneV]

\* env = {"ans": 0.0}
InitEnv == [x \in {"ans"} |-> NumV(0)]

Init ==
    /\ env = InitEnv
    /\ status = "running"
    /\ inp = Input("init", "", Malformed)
    /\ out = NoOutcome
    /\ prev = InitEnv

\* A caller applies eval_line to a line and the environment it owns
EvalLine(s) ==
    LET r == eval_line(s, env) IN
    /\ r.st # "oom"
    /\ env' = r.env
    /\ out' = Outcome(r)
    /\ inp' = Input("line", "", s)
    /\ prev' = env
    /\ UNCHANGED status

NextEval == \E s \in Lines : EvalLine(s)

SpecEval == Init /\ [][NextEval]_vars

----------------------------------------------------------------------------
(* repl *)

\* float(val)
FloatOf(v, e) ==
    IF ~IsNumber(v) THEN Raise("TypeError", e)
    ELSE IF v.k = "huge" THEN Raise("Overflow", e)
    ELSE Ok(v, e)

\* The exception classes the loop's except clauses handle
Caught == {"ZeroDivisionError", "NameError", "ValueError"}

AnsAssignFails ==
    If(Num(1), <<Assign(<<Name("ans")>>, Num(2)), Assign(<<Name("y")>>, DivZero)>>, <<>>)

ReplLines ==
    {Line(<<Expr(e)>>) : e \in
        {Num(1), Num(2), Huge, Str, Name("x"), Name("y"), Name("pi"), Name("sqrt"),
         Name("ans"), Other("Set", <<Num(1)>>), DivZero, Lt, Other("List", <<>>),
         BinOp("Add", Name("ans"), Num(1)), BinOp("Sub", Name("ans"), Name("x")),
         BinOp("Pow", Num(0), Neg1), BinOp("MatMult", Num(1), Num(2)),
         BinOp("Add", DivZero, Lt), UnaryOp("Invert", Num(1)), UnaryOp("USub", Name("ans")),
         Call(Name("sqrt"), <<>>, <<>>, <<>>), Call(Name("sqrt"), <<Neg1>>, <<>>, <<>>),
         Call(Name("sqrt"), <<Name("ans")>>, <<>>, <<>>),
         Call(Name("exp"), <<Huge>>, <<>>, <<>>),
         Call(Name("log"), <<Num(2)>>, <<"base">>, <<Num(2)>>),
         Call(Name("log"), <<Num(1)>>, <<"b">>, <<Num(2)>>),
         Call(Name("abs"), <<>>, <<"x">>, <<Num(1)>>),
         Call(Name("x"), <<Num(1)>>, <<>>, <<>>), Call(Name("pi"), <<Num(1)>>, <<>>, <<>>)}}
    \cup {Line(<<Assign(<<Name("x")>>, v)>>) : v \in
        {Num(1), Num(2), Name("sqrt"), Name("y"), BinOp("Add", Name("x"), Num(1)),
         Other("Set", <<Num(1)>>), DivZero, Huge}}
    \cup {Line(<<a>>) : a \in
        {Assign(<<Name("pi")>>, Num(2)), Assign(<<Name("ans")>>, Num(2)),
         Assign(<<Name("ans")>>, Name("sqrt")), Assign(<<Name("x"), Name("y")>>, Num(1)),
         Assign(<<Other("Subscript", <<Name("x"), Num(0)>>)>>, Num(1)),
         If(Num(1), <<Assign(<<Name("x")>>, Num(2))>>, <<>>), AnsAssignFails,
         AugAssign(Name("x"), "Add", Num(1))}}
    \cup {Malformed, Commented(<<>>), Commented(<<Expr(Num(1))>>)}

\* line.lower().strip() of the texts that start with ":"
Commands == {":quit", ":q", ":exit", ":help", ":h", ":vars", ":v", ":clear", ":c", ":bogus"}

\* input() returns a line that is neither empty nor a command
ReadLine(s) ==
    /\ status = "running"
    /\ LET r == eval_line(s, env)
           f == FloatOf([r.val EXCEPT !.pair = FALSE, !.var = ""], r.env)
       IN /\ r.st # "oom"
          /\ out' = Outcome(r)
          /\ IF r.st = "err"
             THEN /\ env' = r.env
                  /\ status' = IF ExcClass(r.err) \in Caught THEN "running" ELSE "crashed"
             ELSE IF f.st = "err"
             THEN /\ env' = r.env
                  /\ status' = IF ExcClass(f.err) \in Caught THEN "running" ELSE "crashed"
             ELSE /\ env' = Store(r.env, "ans", f.val)
                  /\ status' = "running"
    /\ inp' = Input("line", "", s)
    /\ prev' = env

\* input() returns a line that starts with ":"
ReadCommand(cmd) ==
    /\ status = "running"
    /\ inp' = Input("cmd", cmd, Malformed)
    /\ out' = NoOutcome
    /\ prev' = env
    /\ IF cmd \in {":quit", ":q", ":exit"}
       THEN /\ status' = "exited"
            /\ UNCHANGED env
       ELSE IF cmd \in {":help", ":h"}
       THEN UNCHANGED <<env, status>>
       ELSE IF cmd \in {":vars", ":v"}
       THEN /\ status' = IF "ans" \in DOMAIN env THEN "running" ELSE "crashed"
            /\ UNCHANGED env
       ELSE IF cmd \in {":clear", ":c"}
       THEN /\ env' = InitEnv
            /\ UNCHANGED status
       ELSE UNCHANGED <<env, status>>

\* input() returns an empty line
ReadEmpty ==
    /\ status = "running"
    /\ inp' = Input("empty", "", Malformed)
    /\ out' = NoOutcome
    /\ prev' = env
    /\ UNCHANGED <<env, status>>

\* input() raises EOFError or KeyboardInterrupt
ReadEnd(kind) ==
    /\ status = "running"
    /\ inp' = Input(kind, "", Malformed)
    /\ out' = NoOutcome
    /\ prev' = env
    /\ status' = "exited"
    /\ UNCHANGED env

NextRepl ==
    \/ \E s \in ReplLines : ReadLine(s)
    \/ \E cmd \in Commands : ReadCommand(cmd)
    \/ ReadEmpty
    \/ \E kind \in {"eof", "interrupt"} : ReadEnd(kind)

SpecRepl == Init /\ [][NextRepl]_vars

----------------------------------------------------------------------------
(* Properties *)

LastLine == inp.kind = "line"
\* The last line is one expression statement, LastExpr
IsExprLine == LastLine /\ inp.s.wf /\ Len(inp.s.body) = 1 /\ inp.s.body[1].t = "Expr"
LastExpr == inp.s.body[1].kids[1]
\* The last line is one assignment statement, LastStmt
IsAssignLine == LastLine /\ inp.s.wf /\ Len(inp.s.body) = 1 /\ inp.s.body[1].t = "Assign"
LastStmt == inp.s.body[1]

RECURSIVE Contains(_, _)
Contains(node, classes) ==
    node.t \in classes \/ \E i \in 1..Len(node.kids) : Contains(node.kids[i], classes)
LineContains(classes) ==
    LastLine /\ \E i \in 1..Len(inp.s.body) : Contains(inp.s.body[i], classes)

\* The constructs the grammar excludes
RejectedConstructs == {"Compare", "BoolOp", "IfExp", "Lambda", "Attribute", "Subscript",
                       "List", "Tuple", "Dict"}
\* The errors that reject the form of the input (UnsupportedConstruct, SyntaxError)
FormErrors == {"Unsupported", "NonNumericLiteral", "BadTarget", "NotApproved",
               "Syntax", "SingleOnly", "MultiTarget"}

\* C1: whenever eval_line raises, env is as it was before the call
C1_NoPartialMutation == (LastLine /\ out.st = "err") => env = prev

C3_ErrorsRecovered ==
    status # "running" =>
        \/ inp.kind \in {"eof", "interrupt"}
        \/ inp.kind = "cmd" /\ inp.cmd \in {":quit", ":q", ":exit"}

\* C4: every value stored in env is a number
C4_EnvNumeric == \A k \in DOMAIN env : env[k].k \in {"num", "real", "huge"}

\* C5: what eval_line returns is a number or a (name, number) pair
C5_OutcomeShape == (LastLine /\ out.st = "ok") => out.val.k \in {"num", "real", "huge"}

\* C6: a name resolves in env, then in the constants, then in the functions;
\* a name in none of them raises UnknownName; env is unchanged
C6_ResolutionOrder ==
    (IsExprLine /\ LastExpr.t = "Name") =>
        LET n == LastExpr.id IN
        /\ env = prev
        /\ IF n \in DOMAIN prev THEN out.st = "ok" /\ out.val = prev[n]
           ELSE IF n \in {"pi", "e"} THEN out.st = "ok" /\ out.val = RealV(n)
           ELSE IF n \in FUNCS THEN out.st = "ok" /\ out.val = FnV(n)
           ELSE out.st = "err" /\ out.err = "UnknownName"

C6_Witness ==
    /\ IsExprLine
    /\ LastExpr = Name("pi")
    /\ "pi" \in DOMAIN prev
    /\ out.st = "ok"
    /\ out.val = NumV(2)

\* C7: a divide, floor-divide or modulo whose operands both evaluate and whose
\* right operand is 0 raises DivisionByZero from the guard, not from the
\* arithmetic operator, and returns no value
C7_DivisionGuard ==
    (IsExprLine /\ LastExpr.t = "BinOp" /\ LastExpr.id \in {"Div", "FloorDiv", "Mod"}) =>
        LET l == visit(LastExpr.kids[1], prev)
            r == visit(LastExpr.kids[2], l.env)
        IN (l.st = "ok" /\ r.st = "ok" /\ r.val = NumV(0)) =>
                out.st = "err" /\ out.err = "DivisionByZero"

C7_Witness ==
    /\ IsExprLine
    /\ LastExpr = BinOp("Mod", Name("x"), Name("x"))
    /\ "x" \in DOMAIN prev
    /\ prev["x"] = NumV(0)
    /\ out.err = "DivisionByZero"

\* C8: a successful assignment evaluates its right side in the environment as
\* it was, stores the value under the target and returns (target, value);
\* every other key keeps its value; a successful expression leaves env alone;
\* env changes only when an assignment was evaluated
C8_AssignmentFrame ==
    /\ (IsAssignLine /\ out.st = "ok") =>
            LET t == LastStmt.kids[1].id
                r == visit(LastStmt.kids[Len(LastStmt.kids)], prev)
            IN /\ r.st = "ok"
               /\ out.val = PairV(t, r.val)
               /\ DOMAIN env = DOMAIN prev \cup {t}
               /\ env[t] = r.val
               /\ \A k \in DOMAIN prev \ {t} : env[k] = prev[k]
    /\ (IsExprLine /\ out.st = "ok") => env = prev
    /\ (LastLine /\ env # prev) => LineContains({"Assign"})

C8_Witness ==
    /\ IsAssignLine
    /\ out.st = "ok"
    /\ "x" \in DOMAIN prev
    /\ prev["x"] = NumV(0)
    /\ env["x"] = NumV(2)
    /\ "pi" \in DOMAIN env

\* C9: env always has the key ans; after a line that evaluated, ans is the
\* value computed; after a line that raised, an empty line or a command other
\* than :clear, ans is unchanged; after :clear env is {"ans": 0.0}
C9_AnsReserved ==
    /\ "ans" \in DOMAIN env
    /\ (LastLine /\ out.st = "ok" /\ status = "running") =>
            env["ans"] = [out.val EXCEPT !.pair = FALSE, !.var = ""]
    /\ (LastLine /\ out.st = "err") => env["ans"] = prev["ans"]
    /\ (inp.kind = "empty" \/ (inp.kind = "cmd" /\ inp.cmd \notin {":clear", ":c"})) =>
            env["ans"] = prev["ans"]
    /\ (inp.kind = "cmd" /\ inp.cmd \in {":clear", ":c"}) => env = InitEnv

\* C10: a call whose target name does not resolve to the function registered
\* under that name is rejected before any argument is evaluated, env unchanged
C10_CallTargets ==
    (IsExprLine /\ LastExpr.t = "Call" /\ LastExpr.kids[1].t = "Name") =>
        LET f == LastExpr.kids[1].id
            registered == f \in FUNCS /\ (f \in DOMAIN prev => prev[f] = FnV(f))
        IN ~registered =>
            /\ out.st = "err"
            /\ out.err \in {"NotApproved", "UnknownName"}
            /\ env = prev

====
